---- MODULE Spec2Model ----
(***************************************************************************)
(* Sleep/wake (devices/timer.c) of the Pintos MLFQ scheduler, together     *)
(* with the scheduler core it calls (threads/thread.c: thread_tick,        *)
(* mlfq_boost_all, thread_block, thread_unblock, thread_yield,             *)
(* next_thread_to_run).  The scheduler core is described by README.md and  *)
(* the design text only; timer.c is modelled line by line.                 *)
(*                                                                         *)
(* A run starts MaxLead ticks before the first priority boost: the kernel  *)
(* has booted and calibrated the timer (timer_calibrate waits on the tick  *)
(* counter), and the threads have just been created.                       *)
(***************************************************************************)
EXTENDS Integers, Sequences, FiniteSets, TLC

\* ------------------------------------------------------------------ bounds
NThreads == 2
MaxLead == 2
MaxRun == 3
MaxSleeps == 1
MaxNaps == 2
MaxDemoteTicks == 21
MaxDrop == 1

\* ------------------------------------------------------- program constants
MLFQ_QUEUES == 20
MLFQ_BOOST_INTERVAL == 50
UNINIT == -1

Threads == 1..NThreads
idle_thread == 0
Levels == 0..(MLFQ_QUEUES - 1)
PRI_TOP == MLFQ_QUEUES - 1
BootTicks == MLFQ_BOOST_INTERVAL - MaxLead
EndTicks == BootTicks + MaxRun
Durations == {-1, 0, 1, MaxLead}

VARIABLES
    thread_mlfqs,        \* boot flag -mlfqs
    ticks,               \* timer.c: static int64_t ticks
    ticks_since_boost,   \* thread.c: boost counter
    mlfq_priority,       \* struct thread: mlfq_priority
    ticks_at_priority,   \* struct thread: ticks_at_priority
    status,              \* struct thread: status
    current,             \* the running thread (idle_thread when none)
    mlfq_queues,         \* thread.c: mlfq_queues[20]
    ready_list,          \* thread.c: ready_list (legacy mode)
    sleep_list,          \* timer.c: sleep_list, pointers to the sleepers' st
    pc,                  \* each thread's position in timer_sleep
    st,                  \* timer_sleep local: struct sleeping_thread st
    sleeps,              \* calls of timer_sleep that went on to sleep, so far
    \* observation of the last step and of each call, read by the properties
    op,                  \* the last operation
    woken,               \* threads the last timer interrupt unblocked
    boosted,             \* the last timer interrupt ran mlfq_boost_all
    dispatched,          \* the last step ended by switching to a thread
    call_deadline,       \* tick count at the call plus the duration asked for
    call_prio,           \* mlfq_priority when timer_sleep was called
    call_tap,            \* ticks_at_priority when timer_sleep was called
    boost_seen,          \* "none", "calling" or "asleep": a boost during the call
    run                  \* [level, n]: ticks the running thread has run since
                         \* it entered level with ticks_at_priority = 0

progvars == <<thread_mlfqs, ticks, ticks_since_boost, mlfq_priority,
              ticks_at_priority, status, current, mlfq_queues, ready_list,
              sleep_list, pc, st, sleeps>>
obsvars == <<op, woken, boosted, dispatched, call_deadline, call_prio, call_tap, boost_seen, run>>
vars == <<progvars, obsvars>>

\* ---------------------------------------------------------------- helpers
Max(S) == CHOOSE x \in S : \A y \in S : y <= x

RemoveAt(s, i) == SubSeq(s, 1, i - 1) \o SubSeq(s, i + 1, Len(s))

InSeq(x, s) == \E i \in 1..Len(s) : s[i] = x

NoSt == [wake_tick |-> 0, saved_mlfq_priority |-> UNINIT,
         saved_ticks_at_priority |-> UNINIT]

NoRun == [level |-> -1, n |-> 0]

\* the time slice the design gives level p: (L-1-p)+1 ticks, L = 20
Slice(p) == (MLFQ_QUEUES - 1 - p) + 1

Occurrences(s, x) == Cardinality({i \in 1..Len(s) : s[i] = x})

\* The scheduler state the handlers work on, as one value.  An action binds
\* each intermediate state with \E S \in {e}, so that e is evaluated once.
Cur == [prio |-> mlfq_priority, tap |-> ticks_at_priority, status |-> status,
        current |-> current, queues |-> mlfq_queues, ready |-> ready_list,
        sleep |-> sleep_list, tsb |-> ticks_since_boost,
        woken |-> {}, boosted |-> FALSE, dispatched |-> FALSE]

Commit(S) ==
    /\ mlfq_priority' = S.prio
    /\ ticks_at_priority' = S.tap
    /\ status' = S.status
    /\ current' = S.current
    /\ mlfq_queues' = S.queues
    /\ ready_list' = S.ready
    /\ sleep_list' = S.sleep
    /\ ticks_since_boost' = S.tsb
    /\ woken' = S.woken
    /\ boosted' = S.boosted
    /\ dispatched' = S.dispatched

\* ------------------------------------------------- scheduler core (thread.c)
quantum_short(p) == PRI_TOP - p

quantum(p) == (PRI_TOP - p) + 1

enqueue_front(S, t) ==
    IF thread_mlfqs
    THEN [S EXCEPT !.queues[S.prio[t]] = <<t>> \o @, !.status[t] = "ready"]
    ELSE [S EXCEPT !.ready = <<t>> \o @, !.status[t] = "ready"]

\* enqueue: append to the FIFO of the thread's level (legacy: the ready list)
enqueue(S, t) ==
    IF thread_mlfqs
    THEN [S EXCEPT !.queues[S.prio[t]] = Append(@, t), !.status[t] = "ready"]
    ELSE [S EXCEPT !.ready = Append(@, t), !.status[t] = "ready"]

thread_unblock(S, t) == enqueue(S, t)

NonEmptyLevels(S) == {l \in Levels : S.queues[l] # <<>>}

\* for (i = 19; i >= 0; i--) if (!list_empty (&mlfq_queues[i])) return front
next_thread_to_run(S) ==
    IF thread_mlfqs
    THEN IF NonEmptyLevels(S) = {} THEN idle_thread
         ELSE Head(S.queues[Max(NonEmptyLevels(S))])
    ELSE IF S.ready = <<>> THEN idle_thread ELSE Head(S.ready)

\* schedule(): switch to next_thread_to_run(), popping it from its list
schedule(S) ==
    LET n == next_thread_to_run(S) IN
    IF n = idle_thread THEN [S EXCEPT !.current = idle_thread]
    ELSE IF thread_mlfqs
    THEN [S EXCEPT !.current = n, !.status[n] = "running",
                   !.queues[Max(NonEmptyLevels(S))] = Tail(@),
                   !.dispatched = TRUE]
    ELSE [S EXCEPT !.current = n, !.status[n] = "running",
                   !.ready = Tail(@), !.dispatched = TRUE]

thread_block(S) ==
    schedule([S EXCEPT !.status[S.current] = "blocked"])

thread_yield(S) ==
    IF S.current = idle_thread THEN schedule(S)
    ELSE schedule(enqueue(S, S.current))

RECURSIVE Flatten(_, _)
\* the ready threads of the levels in `order`, level by level
Flatten(queues, order) ==
    IF order = <<>> THEN <<>>
    ELSE queues[Head(order)] \o Flatten(queues, Tail(order))

LowerLevels(asc) ==
    IF asc THEN [i \in 1..PRI_TOP |-> i - 1]
    ELSE [i \in 1..PRI_TOP |-> PRI_TOP - i]

\* mlfq_boost_all: every thread of all_list to level 19 with a fresh quantum;
\* the ready threads of the lower queues are appended to queue 19.  The order
\* in which the lower queues are emptied is not documented: asc chooses it.
mlfq_boost_all(S, asc) ==
    [S EXCEPT !.prio = [t \in Threads |-> PRI_TOP],
              !.tap = [t \in Threads |-> 0],
              !.queues = [l \in Levels |->
                            IF l = PRI_TOP
                            THEN S.queues[PRI_TOP] \o Flatten(S.queues, LowerLevels(asc))
                            ELSE <<>>],
              !.boosted = TRUE]

\* steps 1-3 of thread_tick: quantum accounting of the running thread
account(S) ==
    LET c == S.current IN
    IF c = idle_thread THEN S
    ELSE LET k == S.tap[c] + 1
             p == S.prio[c]
         IN IF k >= quantum(p)
            THEN IF p > 0 THEN [S EXCEPT !.prio[c] = p - 1, !.tap[c] = 0]
                 ELSE [S EXCEPT !.tap[c] = 0]
            ELSE [S EXCEPT !.tap[c] = k]

thread_tick_no_boost(S, asc) ==
    IF ~thread_mlfqs THEN S
    ELSE LET S1 == account(S)
         IN [S1 EXCEPT !.tsb = (S1.tsb + 1) % MLFQ_BOOST_INTERVAL]

thread_tick_boost_early(S, asc) ==
    IF ~thread_mlfqs THEN S
    ELSE LET S1 == account(S)
             n == S1.tsb + 1
         IN IF n >= MLFQ_BOOST_INTERVAL - 1
            THEN mlfq_boost_all([S1 EXCEPT !.tsb = 0], asc)
            ELSE [S1 EXCEPT !.tsb = n]

\* thread_tick: accounting, then the boost counter
thread_tick(S, asc) ==
    IF ~thread_mlfqs THEN S
    ELSE LET S1 == account(S)
             n == S1.tsb + 1
         IN IF n >= MLFQ_BOOST_INTERVAL
            THEN mlfq_boost_all([S1 EXCEPT !.tsb = 0], asc)
            ELSE [S1 EXCEPT !.tsb = n]

\* ------------------------------------------------------------- timer.c
\* timer.c:150  if (ticks <= 0) return;
no_sleep_zero(d) == d < 0

no_sleep(d) == d <= 0

\* timer.c:155  st.wake_tick = start + ticks;
wake_tick_of(s, d) == s + d

\* timer.c:277  if (ticks >= st->wake_tick)
wake_due_early(now, w) == now + 1 >= w

wake_due_late(now, w) == now > w

wake_due(now, w) == now >= w

restore_always(S, t) ==
    [S EXCEPT !.prio[t] = st[t].saved_mlfq_priority,
              !.tap[t] = st[t].saved_ticks_at_priority]

\* timer.c:284-288  restore the saved MLFQ state onto the thread
restore_mlfq_state(S, t) ==
    IF thread_mlfqs
    THEN [S EXCEPT !.prio[t] = st[t].saved_mlfq_priority,
                   !.tap[t] = st[t].saved_ticks_at_priority]
    ELSE S

wake_one_unblock_first(S, i) ==
    LET t == S.sleep[i]
        S1 == thread_unblock([S EXCEPT !.sleep = RemoveAt(@, i)], t)
        S2 == restore_mlfq_state(S1, t)
    IN [S2 EXCEPT !.woken = @ \cup {t}]

wake_one_pop_front(S, i) ==
    LET t == S.sleep[i]
        S1 == restore_mlfq_state(S, t)
        S2 == [S1 EXCEPT !.sleep = Tail(@)]
        S3 == thread_unblock(S2, t)
    IN [S3 EXCEPT !.woken = @ \cup {t}]

\* timer.c:279-292  restore, list_remove, thread_unblock
wake_one(S, i) ==
    LET t == S.sleep[i]
        S1 == restore_mlfq_state(S, t)
        S2 == [S1 EXCEPT !.sleep = RemoveAt(@, i)]
        S3 == thread_unblock(S2, t)
    IN [S3 EXCEPT !.woken = @ \cup {t}]

RECURSIVE wake_scan_skip(_, _, _)
wake_scan_skip(S, i, now) ==
    IF i > Len(S.sleep) THEN S
    ELSE IF wake_due(now, st[S.sleep[i]].wake_tick)
         THEN wake_scan_skip(wake_one(S, i), i + 1, now)
         ELSE wake_scan_skip(S, i + 1, now)

RECURSIVE wake_scan_backwards(_, _, _)
wake_scan_backwards(S, i, now) ==
    IF i > Len(S.sleep) THEN S
    ELSE LET t == S.sleep[i]
             S1 == wake_scan_backwards(S, i + 1, now)
         IN IF wake_due(now, st[t].wake_tick) THEN wake_one(S1, i) ELSE S1

RECURSIVE wake_scan(_, _, _)
\* timer.c:271-299  the walk over sleep_list
wake_scan(S, i, now) ==
    IF i > Len(S.sleep) THEN S
    ELSE IF wake_due(now, st[S.sleep[i]].wake_tick)
         THEN wake_scan(wake_one(S, i), i, now)
         ELSE wake_scan(S, i + 1, now)

sleep_block_no_block(S, t) ==
    [S EXCEPT !.sleep = Append(@, t)]

\* timer.c:167-169  intr_disable, list_push_back, thread_block
sleep_block(S, t) ==
    thread_block([S EXCEPT !.sleep = Append(@, t)])

\* timer.c:267-299  thread_tick (), then the walk over sleep_list
tick_then_wake(S, asc, now) == wake_scan(thread_tick(S, asc), 1, now)

\* the other order the design allows: the walk first, then thread_tick ()
wake_then_tick(S, asc, now) == thread_tick(wake_scan(S, 1, now), asc)

\* the run bookkeeping after a step that ended in state S
RunAfterSwitch(S) ==
    IF S.current # idle_thread /\ S.tap[S.current] = 0
    THEN [level |-> S.prio[S.current], n |-> 0]
    ELSE NoRun

RunAfterTick(S) ==
    IF S.dispatched \/ S.current = idle_thread \/ S.boosted
       \/ run.level < 0 \/ run.n + 1 >= Slice(run.level)
    THEN RunAfterSwitch(S)
    ELSE [run EXCEPT !.n = @ + 1]

\* ------------------------------------------------------------------ Init
Init ==
    /\ thread_mlfqs \in BOOLEAN
    /\ ticks = BootTicks
    /\ ticks_since_boost = (IF thread_mlfqs THEN BootTicks ELSE 0)
    /\ mlfq_priority = [t \in Threads |-> PRI_TOP]
    /\ ticks_at_priority = [t \in Threads |-> 0]
    /\ status = [t \in Threads |-> IF t = 1 THEN "running" ELSE "ready"]
    /\ current = 1
    /\ mlfq_queues = [l \in Levels |->
                        IF thread_mlfqs /\ l = PRI_TOP
                        THEN [i \in 1..(NThreads - 1) |-> i + 1] ELSE <<>>]
    /\ ready_list = (IF thread_mlfqs THEN <<>>
                     ELSE [i \in 1..(NThreads - 1) |-> i + 1])
    /\ sleep_list = <<>>
    /\ pc = [t \in Threads |-> "run"]
    /\ st = [t \in Threads |-> NoSt]
    /\ sleeps = 0
    /\ op = "boot"
    /\ woken = {}
    /\ boosted = FALSE
    /\ dispatched = FALSE
    /\ call_deadline = [t \in Threads |-> 0]
    /\ call_prio = [t \in Threads |-> 0]
    /\ call_tap = [t \in Threads |-> 0]
    /\ boost_seen = [t \in Threads |-> "none"]
    /\ run = [level |-> PRI_TOP, n |-> 0]

\* --------------------------------------------------------------- actions
Quiet == woken' = {} /\ boosted' = FALSE /\ dispatched' = FALSE

\* timer.c:143-155  start = timer_ticks (); if (ticks <= 0) return;
\*                  st.thread = cur; st.wake_tick = start + ticks;
timer_sleep_call(t, d) ==
    /\ current = t /\ pc[t] = "run" /\ ticks < EndTicks
    /\ op' = (IF d <= 0 THEN "timer_sleep_nonpositive" ELSE "timer_sleep")
    /\ Quiet
    /\ IF no_sleep(d)
       THEN UNCHANGED <<pc, st, sleeps, call_deadline, call_prio, call_tap>>
       ELSE /\ sleeps < MaxSleeps
            /\ sleeps' = sleeps + 1
            /\ pc' = [pc EXCEPT ![t] = IF thread_mlfqs THEN "L161" ELSE "L167"]
            /\ call_deadline' = [call_deadline EXCEPT ![t] = ticks + d]
            /\ st' = [st EXCEPT ![t] = [NoSt EXCEPT !.wake_tick = wake_tick_of(ticks, d)]]
            /\ call_prio' = [call_prio EXCEPT ![t] = mlfq_priority[t]]
            /\ call_tap' = [call_tap EXCEPT ![t] = ticks_at_priority[t]]
    /\ UNCHANGED <<thread_mlfqs, ticks, ticks_since_boost, mlfq_priority,
                   ticks_at_priority, status, current, mlfq_queues, ready_list,
                   sleep_list, boost_seen, run>>

timer_sleep_skip_priority(t) ==
    /\ current = t /\ pc[t] = "L161"
    /\ op' = "step"
    /\ Quiet
    /\ pc' = [pc EXCEPT ![t] = "L162"]
    /\ UNCHANGED <<thread_mlfqs, ticks, ticks_since_boost, mlfq_priority,
                   ticks_at_priority, status, current, mlfq_queues, ready_list,
                   sleep_list, st, sleeps, call_deadline, call_prio, call_tap,
                   boost_seen, run>>

\* timer.c:161  st.saved_mlfq_priority = cur->mlfq_priority;
timer_sleep_save_priority(t) ==
    /\ current = t /\ pc[t] = "L161"
    /\ op' = "step"
    /\ Quiet
    /\ st' = [st EXCEPT ![t].saved_mlfq_priority = mlfq_priority[t]]
    /\ pc' = [pc EXCEPT ![t] = "L162"]
    /\ UNCHANGED <<thread_mlfqs, ticks, ticks_since_boost, mlfq_priority,
                   ticks_at_priority, status, current, mlfq_queues, ready_list,
                   sleep_list, sleeps, call_deadline, call_prio, call_tap,
                   boost_seen, run>>

\* timer.c:162  st.saved_ticks_at_priority = cur->ticks_at_priority;
timer_sleep_save_ticks(t) ==
    /\ current = t /\ pc[t] = "L162"
    /\ op' = "step"
    /\ Quiet
    /\ st' = [st EXCEPT ![t].saved_ticks_at_priority = ticks_at_priority[t]]
    /\ pc' = [pc EXCEPT ![t] = "L167"]
    /\ UNCHANGED <<thread_mlfqs, ticks, ticks_since_boost, mlfq_priority,
                   ticks_at_priority, status, current, mlfq_queues, ready_list,
                   sleep_list, sleeps, call_deadline, call_prio, call_tap,
                   boost_seen, run>>

\* timer.c:167-169  the thread enters sleep_list and blocks; it resumes at 170
timer_sleep_block(t) ==
    /\ current = t /\ pc[t] = "L167"
    /\ op' = "block"
    /\ \E S \in {sleep_block(Cur, t)} :
       /\ Commit(S)
       /\ run' = (IF S.dispatched \/ S.current = idle_thread
                  THEN RunAfterSwitch(S) ELSE run)
    /\ pc' = [pc EXCEPT ![t] = "L170"]
    /\ UNCHANGED <<thread_mlfqs, ticks, st, sleeps, call_deadline, call_prio,
                   call_tap, boost_seen>>

\* timer.c:170-176  intr_set_level (old_level); the call returns
timer_sleep_return(t) ==
    /\ current = t /\ pc[t] = "L170"
    /\ op' = "step"
    /\ Quiet
    /\ pc' = [pc EXCEPT ![t] = "run"]
    /\ call_deadline' = [call_deadline EXCEPT ![t] = 0]
    /\ st' = [st EXCEPT ![t] = NoSt]
    /\ call_prio' = [call_prio EXCEPT ![t] = 0]
    /\ call_tap' = [call_tap EXCEPT ![t] = 0]
    /\ boost_seen' = [boost_seen EXCEPT ![t] = "none"]
    /\ UNCHANGED <<thread_mlfqs, ticks, ticks_since_boost, mlfq_priority,
                   ticks_at_priority, status, current, mlfq_queues, ready_list,
                   sleep_list, sleeps, run>>

\* thread_yield (), called by the thread or on return from an interrupt
\* (intr_yield_on_return): the running thread goes to the tail of its level
thread_yield_call(t) ==
    /\ current = t /\ ticks < EndTicks
    /\ op' = "thread_yield"
    /\ \E S \in {thread_yield(Cur)} :
       /\ Commit(S)
       /\ run' = RunAfterSwitch(S)
    /\ UNCHANGED <<thread_mlfqs, ticks, pc, st, sleeps, call_deadline,
                   call_prio, call_tap, boost_seen>>

\* timer.c:262-300  ticks++; thread_tick (); the walk over sleep_list.
\* The idle thread gives the CPU away as soon as a thread is ready; a switch
\* on return from the interrupt is thread_yield_call.
timer_interrupt_body(asc) ==
    /\ op' = "timer_interrupt"
    /\ ticks' = ticks + 1
    /\ \E S1 \in {thread_tick(Cur, asc)} :
       \E S2 \in {wake_scan(S1, 1, ticks + 1)} :
       \E S3 \in {IF current = idle_thread THEN schedule(S2) ELSE S2} :
          /\ Commit(S3)
          /\ run' = RunAfterTick(S3)
          /\ boost_seen' = [t \in Threads |->
                              IF ~S1.boosted THEN boost_seen[t]
                              ELSE IF InSeq(t, sleep_list) THEN "asleep"
                              ELSE IF pc[t] # "run" /\ boost_seen[t] = "none"
                                   THEN "calling"
                              ELSE boost_seen[t]]
    /\ UNCHANGED <<thread_mlfqs, pc, st, sleeps, call_deadline, call_prio,
                   call_tap>>

\* the timer keeps interrupting while the run lasts and while a thread sleeps
timer_interrupt(asc) ==
    /\ ticks < EndTicks \/ sleep_list # <<>>
    /\ timer_interrupt_body(asc)

TimerInterrupt == \E asc \in BOOLEAN : timer_interrupt(asc)

Next ==
    \/ \E t \in Threads, d \in Durations : timer_sleep_call(t, d)
    \/ \E t \in Threads : timer_sleep_save_priority(t)
    \/ \E t \in Threads : timer_sleep_save_ticks(t)
    \/ \E t \in Threads : timer_sleep_block(t)
    \/ \E t \in Threads : timer_sleep_return(t)
    \/ \E t \in Threads : thread_yield_call(t)
    \/ TimerInterrupt

Spec == Init /\ [][Next]_vars

\* timer.c:143-155 once more: the calls of timer_sleep that go on to sleep
\* after the first MaxSleeps of a run, up to MaxNaps calls in all
timer_sleep_call_again(t, d) ==
    /\ current = t /\ pc[t] = "run" /\ ticks < EndTicks
    /\ ~no_sleep(d)
    /\ sleeps >= MaxSleeps /\ sleeps < MaxNaps
    /\ op' = "timer_sleep"
    /\ Quiet
    /\ sleeps' = sleeps + 1
    /\ pc' = [pc EXCEPT ![t] = IF thread_mlfqs THEN "L161" ELSE "L167"]
    /\ call_deadline' = [call_deadline EXCEPT ![t] = ticks + d]
    /\ st' = [st EXCEPT ![t] = [NoSt EXCEPT !.wake_tick = wake_tick_of(ticks, d)]]
    /\ call_prio' = [call_prio EXCEPT ![t] = mlfq_priority[t]]
    /\ call_tap' = [call_tap EXCEPT ![t] = ticks_at_priority[t]]
    /\ UNCHANGED <<thread_mlfqs, ticks, ticks_since_boost, mlfq_priority,
                   ticks_at_priority, status, current, mlfq_queues, ready_list,
                   sleep_list, boost_seen, run>>

\* the same program in a run with up to MaxNaps sleeps, so that two entries
\* are in sleep_list together and a thread sleeps again after it was woken
NextNaps ==
    \/ Next
    \/ \E t \in Threads, d \in Durations : timer_sleep_call_again(t, d)

SpecNaps == Init /\ [][NextNaps]_vars

\* the timer chip interrupts TIMER_FREQ times per second: ticks keep arriving
SpecFair == Init /\ [][Next]_vars /\ WF_vars(TimerInterrupt)

\* ------------------------------------------------ one thread running alone
\* A thread that has just entered level p (ticks_at_priority = 0) and keeps
\* the CPU, at any phase of the boost counter.  The tick counter is counted
\* from the start of the run.  Levels below 19 are entered by demotion, and
\* by waking with a saved level.
InitDemote ==
    /\ thread_mlfqs = TRUE
    /\ ticks = 0
    /\ ticks_since_boost \in 0..(MLFQ_BOOST_INTERVAL - 1)
    /\ mlfq_priority \in {f \in [Threads -> Levels] :
                            \A t \in Threads : t # 1 => f[t] = PRI_TOP}
    /\ ticks_at_priority = [t \in Threads |-> 0]
    /\ status = [t \in Threads |-> IF t = 1 THEN "running" ELSE "ready"]
    /\ current = 1
    /\ mlfq_queues = [l \in Levels |->
                        IF l = PRI_TOP
                        THEN [i \in 1..(NThreads - 1) |-> i + 1] ELSE <<>>]
    /\ ready_list = <<>>
    /\ sleep_list = <<>>
    /\ pc = [t \in Threads |-> "run"]
    /\ st = [t \in Threads |-> NoSt]
    /\ sleeps = 0
    /\ op = "boot"
    /\ woken = {}
    /\ boosted = FALSE
    /\ dispatched = FALSE
    /\ call_deadline = [t \in Threads |-> 0]
    /\ call_prio = [t \in Threads |-> 0]
    /\ call_tap = [t \in Threads |-> 0]
    /\ boost_seen = [t \in Threads |-> "none"]
    /\ run = [level |-> mlfq_priority[1], n |-> 0]

run_tick(asc) ==
    /\ ticks < MaxDemoteTicks
    /\ timer_interrupt_body(asc)

NextDemote == \E asc \in BOOLEAN : run_tick(asc)

SpecDemote == InitDemote /\ [][NextDemote]_vars

\* ------------------------------------- preemption on quantum exhaustion
\* thread_tick asks for a switch on return from the interrupt when the running
\* thread has used up the quantum of its level
quantum_exhausted(S) ==
    /\ thread_mlfqs
    /\ S.current # idle_thread
    /\ S.tap[S.current] + 1 >= quantum(S.prio[S.current])

\* the levels a thread is at when the run starts
StartLevels == (PRI_TOP - MaxDrop)..PRI_TOP

\* MaxLead ticks before a boost, with the running thread at the start of a
\* quantum and the other threads ready, each at a level it was demoted to or
\* woken at
InitStarve ==
    /\ thread_mlfqs = TRUE
    /\ ticks = BootTicks
    /\ ticks_since_boost = BootTicks
    /\ mlfq_priority \in [Threads -> StartLevels]
    /\ ticks_at_priority = [t \in Threads |-> 0]
    /\ status = [t \in Threads |-> IF t = 1 THEN "running" ELSE "ready"]
    /\ current = 1
    /\ mlfq_queues = [l \in Levels |->
                        Flatten([t \in Threads |->
                                   IF t # 1 /\ mlfq_priority[t] = l
                                   THEN <<t>> ELSE <<>>],
                                [i \in 1..NThreads |-> i])]
    /\ ready_list = <<>>
    /\ sleep_list = <<>>
    /\ pc = [t \in Threads |-> "run"]
    /\ st = [t \in Threads |-> NoSt]
    /\ sleeps = 0
    /\ op = "boot"
    /\ woken = {}
    /\ boosted = FALSE
    /\ dispatched = FALSE
    /\ call_deadline = [t \in Threads |-> 0]
    /\ call_prio = [t \in Threads |-> 0]
    /\ call_tap = [t \in Threads |-> 0]
    /\ boost_seen = [t \in Threads |-> "none"]
    /\ run = NoRun

\* timer.c:262-300 followed by the switch that thread_tick asked for
timer_interrupt_preempt(asc) ==
    /\ ticks < EndTicks \/ sleep_list # <<>>
    /\ op' = "timer_interrupt"
    /\ ticks' = ticks + 1
    /\ \E S1 \in {thread_tick(Cur, asc)} :
       \E S2 \in {wake_scan(S1, 1, ticks + 1)} :
       \E S3 \in {IF current = idle_thread \/ quantum_exhausted(Cur)
                  THEN thread_yield(S2) ELSE S2} :
          Commit(S3)
    /\ UNCHANGED <<thread_mlfqs, pc, st, sleeps, call_deadline, call_prio,
                   call_tap, boost_seen, run>>

TimerInterruptPreempt == \E asc \in BOOLEAN : timer_interrupt_preempt(asc)

NextStarve ==
    \/ \E t \in Threads, d \in Durations : timer_sleep_call(t, d)
    \/ \E t \in Threads : timer_sleep_save_priority(t)
    \/ \E t \in Threads : timer_sleep_save_ticks(t)
    \/ \E t \in Threads : timer_sleep_block(t)
    \/ \E t \in Threads : timer_sleep_return(t)
    \/ \E t \in Threads : thread_yield_call(t)
    \/ TimerInterruptPreempt

SpecStarve == InitStarve /\ [][NextStarve]_vars

\* ================================================================ claims
ReadyCount(t) ==
    Occurrences(ready_list, t)
    + Cardinality({l \in Levels : InSeq(t, mlfq_queues[l])})

ReadyTwice(t) == \E l \in Levels : Occurrences(mlfq_queues[l], t) > 1

FloorOf(p) == IF p > 0 THEN p - 1 ELSE 0

\* the running thread followed by the ready threads of its level
Ring ==
    <<current>> \o (IF thread_mlfqs THEN mlfq_queues[mlfq_priority[current]]
                    ELSE ready_list)

NoHigherReady ==
    thread_mlfqs =>
        \A l \in Levels : l > mlfq_priority[current] => mlfq_queues[l] = <<>>

\* C1: a thread that was in sleep_list when an earlier timer interrupt ran
\* mlfq_boost_all is woken at level 19 with ticks_at_priority = 0, whatever
\* it had saved when it went to sleep.
C1_WokenAfterBoostIsTop ==
    thread_mlfqs =>
        \A t \in woken :
            (boost_seen[t] = "asleep" /\ ~boosted) =>
                (mlfq_priority[t] = PRI_TOP /\ ticks_at_priority[t] = 0)

\* C2: with no boost between the call of timer_sleep and the wake, the woken
\* thread has the mlfq_priority and ticks_at_priority it had when it called.
C2_SleepWakeFidelity ==
    thread_mlfqs =>
        \A t \in woken :
            boost_seen[t] = "none" =>
                (mlfq_priority[t] = call_prio[t]
                 /\ ticks_at_priority[t] = call_tap[t])

\* C3: at the end of a timer interrupt that ran the boost, every thread
\* (ready, running, sleeping, or woken by this very interrupt) is at level 19
\* with ticks_at_priority = 0.
C3_BoostCompleteness ==
    (thread_mlfqs /\ boosted) =>
        \A t \in Threads :
            mlfq_priority[t] = PRI_TOP /\ ticks_at_priority[t] = 0

\* C4: whenever a step ends by dispatching a thread, no thread left ready
\* has a higher mlfq_priority than the thread dispatched.
C4_PriorityOrdering ==
    (thread_mlfqs /\ dispatched) =>
        \A u \in Threads :
            status[u] = "ready" => mlfq_priority[current] >= mlfq_priority[u]

C4_Witness ==
    /\ thread_mlfqs /\ dispatched
    /\ \E u \in Threads :
          status[u] = "ready" /\ mlfq_priority[u] < mlfq_priority[current]

\* C5: timer_sleep with ticks <= 0 returns at once and changes nothing: the
\* caller stays the running thread outside timer_sleep, sleep_list, the ready
\* queues, every status and every priority field are as before.
C5_NonPositiveSleepIsNoOp ==
    [][op' = "timer_sleep_nonpositive" =>
          /\ current' = current
          /\ pc'[current] = "run"
          /\ UNCHANGED <<sleep_list, status, mlfq_priority, ticks_at_priority,
                         mlfq_queues, ready_list, pc, st, ticks_since_boost>>]_vars

C5_Witness == op = "timer_sleep_nonpositive" /\ current # idle_thread

\* C6: a thread is never woken at a tick count below the tick count at its
\* call of timer_sleep plus the duration it asked for.
C6_NoEarlyWake == \A t \in woken : ticks >= call_deadline[t]

C6_Witness == \E t \in woken : ticks = call_deadline[t]

\* C7: while ticks keep arriving every sleeping thread is woken; a timer
\* interrupt leaves no entry whose wake_tick has been reached, and a woken
\* thread has left sleep_list and has been enqueued once.
C7_WokenAtFirstDueTick ==
    /\ \A t \in Threads : InSeq(t, sleep_list) ~> (t \in woken)
    /\ [](op = "timer_interrupt" =>
            \A i \in 1..Len(sleep_list) : st[sleep_list[i]].wake_tick > ticks)
    /\ [](\A t \in woken :
            /\ ~InSeq(t, sleep_list)
            /\ \/ status[t] = "ready" /\ ReadyCount(t) = 1 /\ ~ReadyTwice(t)
               \/ status[t] = "running" /\ current = t /\ ReadyCount(t) = 0)

C7_Witness ==
    \E t \in woken : status[t] = "ready" /\ ticks > call_deadline[t]

\* C8 as stated: a thread that has run n ticks since it entered level p with
\* ticks_at_priority = 0 is still at p while n < quantum(p), and on the tick
\* that makes n = quantum(p) it is at p - 1 (at 0 when p = 0) with
\* ticks_at_priority = 0.
C8_DemotionAsStated ==
    [][(ticks' = ticks + 1 /\ thread_mlfqs /\ current # idle_thread
        /\ run.level >= 0) =>
          /\ (run.n + 1 < Slice(run.level) =>
                mlfq_priority'[current] = run.level)
          /\ (run.n + 1 = Slice(run.level) =>
                /\ mlfq_priority'[current] = FloorOf(run.level)
                /\ ticks_at_priority'[current] = 0)]_vars

\* C8 amended: the same on every tick on which the boost does not fire; on a
\* tick on which it fires the thread ends at level 19 with
\* ticks_at_priority = 0.
C8_DemotionUnlessBoost ==
    [][(ticks' = ticks + 1 /\ thread_mlfqs /\ current # idle_thread
        /\ run.level >= 0) =>
          IF boosted'
          THEN /\ mlfq_priority'[current] = PRI_TOP
               /\ ticks_at_priority'[current] = 0
          ELSE /\ (run.n + 1 < Slice(run.level) =>
                     /\ mlfq_priority'[current] = run.level
                     /\ ticks_at_priority'[current] = run.n + 1)
               /\ (run.n + 1 = Slice(run.level) =>
                     /\ mlfq_priority'[current] = FloorOf(run.level)
                     /\ ticks_at_priority'[current] = 0)]_vars

C8_Witness ==
    /\ op = "timer_interrupt" /\ ~boosted /\ current = 1
    /\ mlfq_priority[1] = 0 /\ ticks_at_priority[1] = 0
    /\ ticks = Slice(0)

\* C9: a thread_yield of a thread that has no ready thread above its level
\* rotates the cycle made of the running thread and the FIFO of its level:
\* the head of the FIFO runs next and the yielding thread goes to the tail.
C9_RoundRobin ==
    [][(op' = "thread_yield" /\ current # idle_thread /\ NoHigherReady) =>
          /\ current' # idle_thread
          /\ Ring' = Tail(Ring) \o <<Head(Ring)>>]_vars

C9_Witness ==
    /\ op = "thread_yield" /\ current # idle_thread
    /\ Len(Ring) >= 2 /\ NoHigherReady

\* C10: every thread is in exactly one place: running, once in one ready
\* queue, or blocked with its entry in sleep_list.
C10_ExclusiveMembership ==
    \A t \in Threads :
        /\ status[t] \in {"running", "ready", "blocked"}
        /\ (status[t] = "running") = (current = t)
        /\ ReadyCount(t) = (IF status[t] = "ready" THEN 1 ELSE 0)
        /\ ~ReadyTwice(t)
        /\ Occurrences(sleep_list, t) = (IF status[t] = "blocked" THEN 1 ELSE 0)

C10_Witness ==
    /\ boosted
    /\ \E t \in Threads : InSeq(t, sleep_list) /\ status[t] = "blocked"
    /\ \E u \in Threads : status[u] = "running"

\* C11: without -mlfqs no step changes a priority field, the boost counter or
\* the level queues; timer_sleep stores no snapshot; a woken thread has the
\* mlfq_priority and ticks_at_priority it had when it called, has left
\* sleep_list and is enqueued once; it is woken by the first timer interrupt
\* whose tick count has reached its deadline, and not before.
C11_LegacyFrame ==
    /\ [][~thread_mlfqs =>
            UNCHANGED <<mlfq_priority, ticks_at_priority, ticks_since_boost,
                        mlfq_queues>>]_vars
    /\ [](~thread_mlfqs =>
            /\ \A t \in Threads :
                  /\ st[t].saved_mlfq_priority = UNINIT
                  /\ st[t].saved_ticks_at_priority = UNINIT
            /\ \A t \in woken :
                  /\ mlfq_priority[t] = call_prio[t]
                  /\ ticks_at_priority[t] = call_tap[t]
                  /\ ticks >= call_deadline[t]
                  /\ ~InSeq(t, sleep_list)
                  /\ Occurrences(ready_list, t)
                       = (IF status[t] = "ready" THEN 1 ELSE 0)
            /\ (op = "timer_interrupt" =>
                  \A i \in 1..Len(sleep_list) :
                      st[sleep_list[i]].wake_tick > ticks))

C11_Witness ==
    /\ ~thread_mlfqs
    /\ \E t \in woken : ticks = call_deadline[t] /\ status[t] = "ready"


\* the place of t in a queue that holds it
Pos(q, t) == CHOOSE i \in 1..Len(q) : q[i] = t

\* t waits in queue 19 behind a running thread of level 19, whose quantum
\* ends with the next tick
InTopBehindTop(t) ==
    /\ InSeq(t, mlfq_queues[PRI_TOP])
    /\ current # idle_thread
    /\ mlfq_priority[current] = PRI_TOP

\* a bound on the number of ticks a ready thread still waits for the CPU
Wait(t) ==
    IF InTopBehindTop(t) THEN Pos(mlfq_queues[PRI_TOP], t)
    ELSE NThreads + (MLFQ_BOOST_INTERVAL - ticks_since_boost)

C13_PriorityInRange ==
    thread_mlfqs =>
        /\ \A t \in Threads : mlfq_priority[t] \in Levels
        /\ \A i \in 1..Len(sleep_list) :
              st[sleep_list[i]].saved_mlfq_priority \in Levels

C13_Witness ==
    /\ thread_mlfqs
    /\ \E t \in woken :
          /\ mlfq_priority[t] = st[t].saved_mlfq_priority
          /\ mlfq_priority[t] < PRI_TOP

\* C14: with -mlfqs every step that changes a thread's mlfq_priority, be it
\* a demotion, a boost or the restoring of the saved state on wake, leaves that
\* thread with ticks_at_priority = 0.
C14_LevelChangeResetsTicks ==
    [][thread_mlfqs =>
         \A t \in Threads :
             mlfq_priority'[t] # mlfq_priority[t] => ticks_at_priority'[t] = 0]_vars

\* C15: with -mlfqs, whatever timer interrupts fall inside timer_sleep, the
\* entry a thread links into sleep_list holds the mlfq_priority and the
\* ticks_at_priority the thread has at the moment it blocks.
C15_SnapshotAtomic ==
    [][(thread_mlfqs /\ op' = "block") =>
          /\ st[current].saved_mlfq_priority = mlfq_priority[current]
          /\ st[current].saved_ticks_at_priority = ticks_at_priority[current]]_vars

\* the same priority fields, ready queues, sleep_list and thread states
SameScheduler(A, B) ==
    /\ A.prio = B.prio /\ A.tap = B.tap /\ A.tsb = B.tsb
    /\ A.queues = B.queues /\ A.ready = B.ready
    /\ A.sleep = B.sleep /\ A.status = B.status

\* some entry of sleep_list is due at the next tick
DueNext == \E i \in 1..Len(sleep_list) :
               wake_due(ticks + 1, st[sleep_list[i]].wake_tick)

\* the next tick is the one on which the boost fires
BoostNext == thread_mlfqs /\ ticks_since_boost + 1 >= MLFQ_BOOST_INTERVAL

NotDue(s, now) ==
    LET Later(t) == st[t].wake_tick > now
    IN SelectSeq(s, Later)

\* C17: the walk over sleep_list at tick count now removes exactly the
\* entries with wake_tick <= now; the entries with wake_tick > now stay, in
\* the order they had, and their threads stay blocked with the
\* mlfq_priority and ticks_at_priority they had when the walk began; no timer
\* interrupt writes to an entry that stays.
C17_WalkFrame ==
    /\ [](\A asc \in BOOLEAN :
            LET now == ticks + 1
                S1 == thread_tick(Cur, asc)
                S2 == wake_scan(S1, 1, now)
            IN /\ S2.sleep = NotDue(sleep_list, now)
               /\ \A i \in 1..Len(S2.sleep) :
                     LET t == S2.sleep[i]
                     IN /\ S2.status[t] = "blocked"
                        /\ S2.prio[t] = S1.prio[t]
                        /\ S2.tap[t] = S1.tap[t]
                        /\ t \notin S2.woken)
    /\ [][op' = "timer_interrupt" =>
            /\ sleep_list' = NotDue(sleep_list, ticks')
            /\ \A i \in 1..Len(sleep_list') :
                  /\ st'[sleep_list'[i]] = st[sleep_list'[i]]
                  /\ status'[sleep_list'[i]] = "blocked"]_vars

C17_Witness ==
    /\ op = "timer_interrupt" /\ woken # {} /\ sleep_list # <<>>
    /\ \A i \in 1..Len(sleep_list) : st[sleep_list[i]].wake_tick > ticks

\* the ready list a thread of state S is queued in
QueueOf(S, t) == IF thread_mlfqs THEN S.queues[S.prio[t]] ELSE S.ready

\* C18: timer_sleep links its entry at the tail of sleep_list, and the walk
\* enqueues the threads it wakes in list order: of two threads woken by the
\* same interrupt into the same ready list, the one that blocked first is
\* ahead of the other, whatever their wake_ticks; when the CPU is idle it is
\* the one dispatched.
C18_WakeInRegistrationOrder ==
    /\ [][op' = "block" => sleep_list' = Append(sleep_list, current)]_vars
    /\ [](\A asc \in BOOLEAN :
            LET S2 == tick_then_wake(Cur, asc, ticks + 1)
            IN \A i, j \in 1..Len(sleep_list) :
                  LET a == sleep_list[i]
                      b == sleep_list[j]
                  IN (i < j /\ a \in S2.woken /\ b \in S2.woken
                      /\ QueueOf(S2, a) = QueueOf(S2, b)) =>
                        /\ InSeq(a, QueueOf(S2, a)) /\ InSeq(b, QueueOf(S2, a))
                        /\ Pos(QueueOf(S2, a), a) < Pos(QueueOf(S2, a), b))
    /\ [][\A i, j \in 1..Len(sleep_list) :
            (op' = "timer_interrupt" /\ current = idle_thread
             /\ sleep_list[i] \in woken' /\ sleep_list[j] \in woken'
             /\ status'[sleep_list[j]] = "running") =>
                \/ j <= i
                \/ thread_mlfqs /\ mlfq_priority'[sleep_list[j]]
                                     > mlfq_priority'[sleep_list[i]]]_vars

C18_Witness ==
    /\ op = "timer_interrupt" /\ dispatched
    /\ \E a, b \in woken :
          /\ current = a /\ status[b] = "ready"
          /\ (thread_mlfqs => mlfq_priority[a] = mlfq_priority[b])
          /\ st[a].wake_tick > st[b].wake_tick

\* C19: with -mlfqs, when a timer interrupt has finished, every thread's
\* ticks_at_priority is at least 0 and below the quantum of its mlfq_priority,
\* the threads this interrupt has woken included.
C19_TicksBelowQuantum ==
    (thread_mlfqs /\ op = "timer_interrupt") =>
        \A t \in Threads :
            /\ ticks_at_priority[t] >= 0
            /\ ticks_at_priority[t] < quantum(mlfq_priority[t])

\* C20: sleep_list holds at most one entry per thread, and the thread of
\* every entry is blocked inside timer_sleep, between thread_block and its
\* return, so that the entry, which lies in that call's stack frame, is alive;
\* a thread woken by a timer interrupt has no entry left.
C20_EntriesOfBlockedCallers ==
    /\ \A t \in Threads : Occurrences(sleep_list, t) <= 1
    /\ \A i \in 1..Len(sleep_list) :
          /\ sleep_list[i] \in Threads
          /\ status[sleep_list[i]] = "blocked"
          /\ pc[sleep_list[i]] = "L170"
          /\ sleep_list[i] # current
    /\ \A t \in woken : ~InSeq(t, sleep_list) /\ status[t] # "blocked"

C20_Witness ==
    /\ op = "timer_interrupt"
    /\ \E t \in Threads : InSeq(t, sleep_list) /\ status[t] = "blocked"
    /\ \E u \in woken : status[u] = "running" /\ pc[u] = "L170"

====
